---------------------------- MODULE Spec2Model ----------------------------
(***************************************************************************)
(* Model of Backfill-GA4-to-BigQuery.py: a batch job that pages a GA4      *)
(* report, normalizes the rows, checks each record against monthly         *)
(* BigQuery tables (incremental mode only), buckets the new records by     *)
(* (year, month) and appends each bucket to its table.                     *)
(*                                                                         *)
(* Python strings are TLA+ strings; s[a:b] is SubSeq(s, a+1, b).  None is  *)
(* the empty tuple <<>> and a Python bool b in an optional field is <<b>>. *)
(* A run is one execution of the script; the warehouse (sink), the GA4     *)
(* property's data and token.pickle outlive a run, everything else is      *)
(* process state and starts afresh with each run.                          *)
(***************************************************************************)
EXTENDS Integers, Sequences, FiniteSets, TLC

VARIABLES
    pc,            \* position of the script
    run,           \* number of the current execution of the script
    args,          \* argparse result: [yesterday, initial_fetch]
    start_date,    \* requested range, '%Y-%m-%d'
    end_date,
    token,         \* TRUE iff token.pickle exists
    gaData,        \* the GA4 property's rows, per report
    report,        \* the rows GA4 holds for this run's two requests
    gaCalls,       \* run_report calls of this run: <<report, offset, limit>>
    offset,        \* run_report_with_pagination: offset
    all_rows,      \* run_report_with_pagination: all_rows
    active_users,  \* result of the first paginated report
    all_events,    \* result of the second paginated report
    sorted_events, \* all_events sorted by date
    i,             \* index of the loop the script is in
    rec,           \* the record normalized in the current loop iteration
    csv,           \* rows of output.csv
    rows_by_month, \* ordered dict (year, month) -> list of records
    sink,          \* the dataset: table_id -> [schema, rows]
    sink0,         \* the dataset as it was when the run started
    bqCalls,       \* bq_client calls of this run, in order
    stdout         \* what this run printed

vars == <<pc, run, args, start_date, end_date, token, gaData, report, gaCalls,
          offset, all_rows, active_users, all_events, sorted_events, i, rec,
          csv, rows_by_month, sink, sink0, bqCalls, stdout>>

----------------------------------------------------------------------------
(* Bounds of the model *)

MaxRows == 2        \* rows the GA4 property holds, both reports together
MaxRuns == 2        \* executions of the script
MaxFullPages == 2   \* full pages a large report holds

(* Program constants and configuration *)

limit == 10000
TABLE_PREFIX == "_backfill_GA4_"
INITIAL_FETCH_FROM_DATE == "2023-01-01"

None == <<>>
Some(b) == <<b>>

Min(a, b) == IF a <= b THEN a ELSE b

----------------------------------------------------------------------------
(* Strings of decimal digits *)

DigitOf(c) ==
    CASE c = "0" -> 0 [] c = "1" -> 1 [] c = "2" -> 2 [] c = "3" -> 3
      [] c = "4" -> 4 [] c = "5" -> 5 [] c = "6" -> 6 [] c = "7" -> 7
      [] c = "8" -> 8 [] c = "9" -> 9

RECURSIVE ToInt(_)
\* the INT64 a decimal string is read as (JSON row field, INTEGER parameter)
ToInt(s) ==
    IF Len(s) = 0 THEN 0
    ELSE 10 * ToInt(SubSeq(s, 1, Len(s) - 1)) + DigitOf(SubSeq(s, Len(s), Len(s)))

RECURSIVE StrLess(_, _)
\* Python's a < b on strings of digits
StrLess(a, b) ==
    IF Len(b) = 0 THEN FALSE
    ELSE IF Len(a) = 0 THEN TRUE
    ELSE LET x == DigitOf(SubSeq(a, 1, 1))
             y == DigitOf(SubSeq(b, 1, 1))
         IN  IF x # y THEN x < y
             ELSE StrLess(SubSeq(a, 2, Len(a)), SubSeq(b, 2, Len(b)))

RECURSIVE InsertByDate(_, _)
\* x placed after every element whose date is not greater (stable)
InsertByDate(x, s) ==
    IF s = <<>> THEN <<x>>
    ELSE IF StrLess(x.date, Head(s).date) THEN <<x>> \o s
    ELSE <<Head(s)>> \o InsertByDate(x, Tail(s))

RECURSIVE SortByDate(_)
\* sorted(rows, key=date): stable, ascending
SortByDate(s) ==
    IF s = <<>> THEN <<>>
    ELSE InsertByDate(s[Len(s)], SortByDate(SubSeq(s, 1, Len(s) - 1)))

----------------------------------------------------------------------------
(* The GA4 property *)

Days == {"2023-01-15", "2024-01-15", "2024-02-03"}

UserRows ==
    { [date |-> "20240115", channel |-> "Direct",         sessions |-> "42"],
      [date |-> "20240115", channel |-> "Organic Search", sessions |-> "7"],
      [date |-> "20230115", channel |-> "Direct",         sessions |-> "42"] }

EventRows ==
    { [eventName |-> "purchase", date |-> "20240203",
       isConversionEvent |-> "true", channel |-> "Direct", eventCount |-> "3"],
      [eventName |-> "page_view", date |-> "20240115",
       isConversionEvent |-> "(not set)", channel |-> "Direct", eventCount |-> "42"],
      [eventName |-> "purchase", date |-> "20240203",
       isConversionEvent |-> "false", channel |-> "Direct", eventCount |-> "3"],
      [eventName |-> "scroll", date |-> "20240115",
       isConversionEvent |-> "", channel |-> "Organic Search", eventCount |-> "7"] }

SeqsUpTo(S, n) == UNION { [1..k -> S] : k \in 0..n }

\* '%Y-%m-%d' as the YYYYMMDD of the date dimension
GaDate(d) == SubSeq(d, 1, 4) \o SubSeq(d, 6, 7) \o SubSeq(d, 9, 10)

InRange(row, from, to) ==
    /\ ToInt(GaDate(from)) <= ToInt(row.date)
    /\ ToInt(row.date) <= ToInt(GaDate(to))

\* the rows GA4 holds for a request: date_ranges, and order_bys for the first
ResultUsers(data, from, to) ==
    SortByDate(SelectSeq(data, LAMBDA r : InRange(r, from, to)))

ResultEvents(data, from, to) ==
    SelectSeq(data, LAMBDA r : InRange(r, from, to))

\* client.run_report(request): the rows offset .. offset+limit-1 of the result
run_report(rows, off, lim) ==
    SubSeq(rows, off + 1, Min(off + lim, Len(rows)))

----------------------------------------------------------------------------
(* Start of a run *)

Fresh ==
    /\ pc = "idle"
    /\ args = [yesterday |-> FALSE, initial_fetch |-> FALSE]
    /\ start_date = "" /\ end_date = ""
    /\ report = [users |-> <<>>, events |-> <<>>]
    /\ gaCalls = <<>>
    /\ offset = 0 /\ all_rows = <<>>
    /\ active_users = <<>> /\ all_events = <<>> /\ sorted_events = <<>>
    /\ i = 0 /\ rec = None
    /\ csv = <<>>
    /\ rows_by_month = <<>>
    /\ bqCalls = <<>>
    /\ stdout = <<>>

Init ==
    /\ Fresh
    /\ run = 1
    /\ token = FALSE
    /\ \E nu \in 0..MaxRows :
         /\ gaData \in [users : SeqsUpTo(UserRows, nu),
                        events : SeqsUpTo(EventRows, MaxRows - nu)]
         /\ Len(gaData.users) = nu
    /\ sink = <<>>
    /\ sink0 = sink

----------------------------------------------------------------------------
(* Command line and date range *)

\* one prior day (--yesterday), with the rows GA4 holds for that range
ParseYesterday(initial_fetch, date) ==
    /\ args' = [yesterday |-> TRUE, initial_fetch |-> initial_fetch]
    /\ start_date' = date /\ end_date' = date
    /\ stdout' = Append(stdout, <<"Starting fetching data", date, date>>)
    /\ pc' = "auth"

\* --initial_fetch, confirmed with "yes": from the configured date to today
ParseInitial(today) ==
    /\ args' = [yesterday |-> FALSE, initial_fetch |-> TRUE]
    /\ start_date' = INITIAL_FETCH_FROM_DATE /\ end_date' = today
    /\ stdout' = Append(stdout, <<"Starting fetching data", INITIAL_FETCH_FROM_DATE, today>>)
    /\ pc' = "auth"

\* --initial_fetch declined, or no flag: sys.exit()
ParseExit(initial_fetch) ==
    /\ args' = [yesterday |-> FALSE, initial_fetch |-> initial_fetch]
    /\ stdout' = Append(stdout, IF initial_fetch
                                THEN <<"Exiting script due to user cancellation.">>
                                ELSE <<"No valid date range argument provided. Exiting script.">>)
    /\ pc' = "exit"
    /\ UNCHANGED <<start_date, end_date>>

ParseArgs ==
    /\ pc = "idle"
    /\ \E yesterday \in BOOLEAN, initial_fetch \in BOOLEAN,
          confirmation \in {"yes", "no"}, date \in Days :
         IF yesterday THEN ParseYesterday(initial_fetch, date)
         ELSE IF initial_fetch /\ confirmation = "yes" THEN ParseInitial(date)
         ELSE ParseExit(initial_fetch)
    /\ UNCHANGED <<run, token, gaData, report, gaCalls, offset, all_rows,
                   active_users, all_events, sorted_events, i, rec, csv,
                   rows_by_month, sink, sink0, bqCalls>>

\* service-account client for BigQuery, then the cached or interactive OAuth
\* token for the Analytics Data API; the two requests are built for the range
Authenticate ==
    /\ pc = "auth"
    /\ token' = TRUE
    /\ stdout' = stdout
                 \o (IF token THEN <<>> ELSE << <<"Please go to this URL">> >>)
                 \o << <<"Authentication successful!">> >>
    /\ report' = [users  |-> ResultUsers(gaData.users, start_date, end_date),
                  events |-> ResultEvents(gaData.events, start_date, end_date)]
    /\ offset' = 0 /\ all_rows' = <<>>
    /\ pc' = "fetch_users"
    /\ UNCHANGED <<run, args, start_date, end_date, gaData, gaCalls,
                   active_users, all_events, sorted_events, i, rec, csv,
                   rows_by_month, sink, sink0, bqCalls>>

----------------------------------------------------------------------------
(* run_report_with_pagination *)

\* run_report_with_pagination with the loop going on until a response is empty
run_report_with_pagination_UntilEmpty(req) ==
    LET response == run_report(report[req], offset, limit)
        rows     == all_rows \o response
    IN  /\ gaCalls' = Append(gaCalls, <<req, offset, limit>>)
        /\ IF Len(response) > 0
           THEN /\ offset' = offset + limit
                /\ all_rows' = rows
                /\ UNCHANGED <<pc, active_users, all_events>>
           ELSE /\ offset' = 0
                /\ all_rows' = <<>>
                /\ IF req = "users"
                   THEN /\ active_users' = rows
                        /\ pc' = "fetch_events"
                        /\ UNCHANGED all_events
                   ELSE /\ all_events' = rows
                        /\ pc' = "open_csv"
                        /\ UNCHANGED active_users

\* one iteration of the while loop for request req; the result is all_rows
\* extended by the response, and the loop ends iff the response is short
run_report_with_pagination(req) ==
    LET response == run_report(report[req], offset, limit)
        rows     == all_rows \o response
    IN  /\ gaCalls' = Append(gaCalls, <<req, offset, limit>>)
        /\ IF Len(response) = limit
           THEN /\ offset' = offset + limit
                /\ all_rows' = rows
                /\ UNCHANGED <<pc, active_users, all_events>>
           ELSE /\ offset' = 0
                /\ all_rows' = <<>>
                /\ IF req = "users"
                   THEN /\ active_users' = rows
                        /\ pc' = "fetch_events"
                        /\ UNCHANGED all_events
                   ELSE /\ all_events' = rows
                        /\ pc' = "open_csv"
                        /\ UNCHANGED active_users

FetchUsers ==
    /\ pc = "fetch_users"
    /\ run_report_with_pagination("users")
    /\ UNCHANGED <<run, args, start_date, end_date, token, gaData, report,
                   sorted_events, i, rec, csv, rows_by_month, sink, sink0,
                   bqCalls, stdout>>

FetchEvents ==
    /\ pc = "fetch_events"
    /\ run_report_with_pagination("events")
    /\ UNCHANGED <<run, args, start_date, end_date, token, gaData, report,
                   sorted_events, i, rec, csv, rows_by_month, sink, sink0,
                   bqCalls, stdout>>

----------------------------------------------------------------------------
(* Row normalizer and output.csv *)

Header == <<"Event Name", "Event Date", "Event Count", "Is Conversion", "Channel", "Event_Type">>

\* csv.writer's text of an optional bool: None is '', a bool is its str()
CsvCell(v) == IF v = None THEN "" ELSE IF v = Some(TRUE) THEN "True" ELSE "False"

CsvRow(r) ==
    <<r.Event_Name, r.Event_Date, r.Event_Count, CsvCell(r.Is_Conversion),
      r.Channel, r.Event_Type>>

\* bool(s) of a Python string
Bool(s) == s # ""

NormalizeUserRow(row) ==
    [Event_Name    |-> "ct_active_users",
     Event_Date    |-> row.date,
     Event_Count   |-> row.sessions,
     Is_Conversion |-> None,
     Channel       |-> row.channel,
     Event_Type    |-> "Traffic"]

\* NormalizeEventRow without the "(not set)" sentinel
NormalizeEventRow_KeepSentinel(row) ==
    LET is_conversion == Bool(row.isConversionEvent)
    IN  [Event_Name    |-> row.eventName,
         Event_Date    |-> row.date,
         Event_Count   |-> row.eventCount,
         Is_Conversion |-> Some(is_conversion),
         Channel       |-> row.channel,
         Event_Type    |-> IF is_conversion THEN "Conversion" ELSE "Event"]

NormalizeEventRow(row) ==
    LET flag          == IF row.isConversionEvent = "(not set)" THEN ""
                         ELSE row.isConversionEvent
        is_conversion == Bool(flag)
    IN  [Event_Name    |-> row.eventName,
         Event_Date    |-> row.date,
         Event_Count   |-> row.eventCount,
         Is_Conversion |-> Some(is_conversion),
         Channel       |-> row.channel,
         Event_Type    |-> IF is_conversion THEN "Conversion" ELSE "Event"]

----------------------------------------------------------------------------
(* The BigQuery dataset *)

Year(event_date)  == SubSeq(event_date, 1, 4)
\* Month with the slice one character early
Month_OffByOne(event_date) == SubSeq(event_date, 4, 5)
Month(event_date) == SubSeq(event_date, 5, 6)

get_table_ref(year, month) == TABLE_PREFIX \o year \o month \o "01"

\* the schema the script creates its tables with: six NULLABLE fields
schema ==
    << <<"Event_Name", "STRING">>, <<"Event_Date", "INTEGER">>,
       <<"Event_Count", "INTEGER">>, <<"Is_Conversion", "BOOLEAN">>,
       <<"Channel", "STRING">>, <<"Event_Type", "STRING">> >>

BqCall(op, table, rows, ok) == [op |-> op, table |-> table, rows |-> rows, ok |-> ok]

\* a row as the table stores it under the schema: the INTEGER columns hold
\* the numbers the decimal strings denote
StoredRow(r) ==
    [Event_Name    |-> r.Event_Name,
     Event_Date    |-> ToInt(r.Event_Date),
     Event_Count   |-> ToInt(r.Event_Count),
     Is_Conversion |-> r.Is_Conversion,
     Channel       |-> r.Channel,
     Event_Type    |-> r.Event_Type]

StoredRows(rows) == [k \in 1..Len(rows) |-> StoredRow(rows[k])]

\* SELECT COUNT(*) ... WHERE the four columns equal the four parameters
QueryCount(table, event_name, event_date, event_count, channel_group) ==
    Cardinality({ k \in 1..Len(table) :
                    /\ table[k].Event_Name = event_name
                    /\ table[k].Event_Date = ToInt(event_date)
                    /\ table[k].Event_Count = ToInt(event_count)
                    /\ table[k].Channel = channel_group })

\* exists_in_bigquery with the test count > 1
exists_in_bigquery_MoreThanOne(event_name, event_date, event_count, channel_group) ==
    LET table_id == get_table_ref(Year(event_date), Month(event_date))
        r        == [Event_Name |-> event_name, Event_Date |-> event_date,
                     Event_Count |-> event_count, Channel |-> channel_group]
    IN  IF table_id \notin DOMAIN sink
        THEN [found |-> FALSE,
              calls |-> <<BqCall("get_table", table_id, <<>>, FALSE)>>,
              out   |-> <<>>]
        ELSE LET count == QueryCount(sink[table_id].rows, event_name, event_date,
                                     event_count, channel_group)
             IN  [found |-> count > 1,
                  calls |-> <<BqCall("get_table", table_id, <<>>, TRUE),
                              BqCall("query", table_id, <<r>>, count > 1)>>,
                  out   |-> IF count > 1
                            THEN << <<"..record already exists in BigQuery", count>> >>
                            ELSE <<>>]

\* exists_in_bigquery: its return value, its bq_client calls and its output
exists_in_bigquery(event_name, event_date, event_count, channel_group) ==
    LET table_id == get_table_ref(Year(event_date), Month(event_date))
        r        == [Event_Name |-> event_name, Event_Date |-> event_date,
                     Event_Count |-> event_count, Channel |-> channel_group]
    IN  IF table_id \notin DOMAIN sink
        THEN [found |-> FALSE,
              calls |-> <<BqCall("get_table", table_id, <<>>, FALSE)>>,
              out   |-> <<>>]
        ELSE LET count == QueryCount(sink[table_id].rows, event_name, event_date,
                                     event_count, channel_group)
             IN  [found |-> count > 0,
                  calls |-> <<BqCall("get_table", table_id, <<>>, TRUE),
                              BqCall("query", table_id, <<r>>, count > 0)>>,
                  out   |-> IF count > 0
                            THEN << <<"..record already exists in BigQuery", count>> >>
                            ELSE <<>>]

----------------------------------------------------------------------------
(* Dedup and partition routing *)

\* SetDefaultAppend that leaves out a record whose dedup key the bucket holds
SetDefaultAppend_DedupInRun(d, key, r) ==
    IF \E k \in 1..Len(d) : d[k].key = key
    THEN [k \in 1..Len(d) |->
            IF /\ d[k].key = key
               /\ ~\E j \in 1..Len(d[k].rows) :
                     /\ d[k].rows[j].Event_Name = r.Event_Name
                     /\ d[k].rows[j].Event_Date = r.Event_Date
                     /\ d[k].rows[j].Event_Count = r.Event_Count
                     /\ d[k].rows[j].Channel = r.Channel
            THEN [d[k] EXCEPT !.rows = Append(@, r)] ELSE d[k]]
    ELSE Append(d, [key |-> key, rows |-> <<r>>])

\* rows_by_month.setdefault(key, []).append(r) on the insertion-ordered dict
SetDefaultAppend(d, key, r) ==
    IF \E k \in 1..Len(d) : d[k].key = key
    THEN [k \in 1..Len(d) |->
            IF d[k].key = key THEN [d[k] EXCEPT !.rows = Append(@, r)] ELSE d[k]]
    ELSE Append(d, [key |-> key, rows |-> <<r>>])

\* Route with the existence check made in every mode
Route_AlwaysCheck(r) ==
    LET check == exists_in_bigquery(r.Event_Name, r.Event_Date, r.Event_Count, r.Channel)
    IN  /\ bqCalls' = bqCalls \o check.calls
        /\ stdout' = stdout \o check.out
        /\ rows_by_month' =
             IF check.found THEN rows_by_month
             ELSE SetDefaultAppend(rows_by_month,
                                   <<Year(r.Event_Date), Month(r.Event_Date)>>, r)

\* if not (args.yesterday and exists_in_bigquery(...)): bucket the record
Route(r) ==
    LET check == IF args.yesterday
                 THEN exists_in_bigquery(r.Event_Name, r.Event_Date, r.Event_Count, r.Channel)
                 ELSE [found |-> FALSE, calls |-> <<>>, out |-> <<>>]
    IN  /\ bqCalls' = bqCalls \o check.calls
        /\ stdout' = stdout \o check.out
        /\ rows_by_month' =
             IF check.found THEN rows_by_month
             ELSE SetDefaultAppend(rows_by_month,
                                   <<Year(r.Event_Date), Month(r.Event_Date)>>, r)

\* open('output.csv', 'w') and the header row
OpenCsv ==
    /\ pc = "open_csv"
    /\ csv' = <<Header>>
    /\ rows_by_month' = <<>>
    /\ i' = 1
    /\ pc' = "users_norm"
    /\ UNCHANGED <<run, args, start_date, end_date, token, gaData, report,
                   gaCalls, offset, all_rows, active_users, all_events,
                   sorted_events, rec, sink, sink0, bqCalls, stdout>>

\* first half of an iteration over active_users: the record and its csv row
NormalizeUser ==
    /\ pc = "users_norm"
    /\ i <= Len(active_users)
    /\ rec' = NormalizeUserRow(active_users[i])
    /\ csv' = Append(csv, CsvRow(rec'))
    /\ pc' = "users_route"
    /\ UNCHANGED <<run, args, start_date, end_date, token, gaData, report,
                   gaCalls, offset, all_rows, active_users, all_events,
                   sorted_events, i, rows_by_month, sink, sink0, bqCalls, stdout>>

\* second half: the existence check and the bucket
RouteUser ==
    /\ pc = "users_route"
    /\ Route(rec)
    /\ i' = i + 1
    /\ pc' = "users_norm"
    /\ UNCHANGED <<run, args, start_date, end_date, token, gaData, report,
                   gaCalls, offset, all_rows, active_users, all_events,
                   sorted_events, rec, csv, sink, sink0>>

\* active_users exhausted: sorted(all_events, key=date)
SortEvents ==
    /\ pc = "users_norm"
    /\ i > Len(active_users)
    /\ sorted_events' = SortByDate(all_events)
    /\ i' = 1
    /\ pc' = "events_norm"
    /\ UNCHANGED <<run, args, start_date, end_date, token, gaData, report,
                   gaCalls, offset, all_rows, active_users, all_events, rec,
                   csv, rows_by_month, sink, sink0, bqCalls, stdout>>

\* NormalizeEvent leaving the csv row to be written for new records only
NormalizeEvent_Unaudited ==
    /\ pc = "events_norm"
    /\ i <= Len(sorted_events)
    /\ rec' = NormalizeEventRow(sorted_events[i])
    /\ pc' = "events_route"
    /\ UNCHANGED <<run, args, start_date, end_date, token, gaData, report,
                   gaCalls, offset, all_rows, active_users, all_events,
                   sorted_events, i, csv, rows_by_month, sink, sink0, bqCalls,
                   stdout>>

NormalizeEvent ==
    /\ pc = "events_norm"
    /\ i <= Len(sorted_events)
    /\ rec' = NormalizeEventRow(sorted_events[i])
    /\ csv' = Append(csv, CsvRow(rec'))
    /\ pc' = "events_route"
    /\ UNCHANGED <<run, args, start_date, end_date, token, gaData, report,
                   gaCalls, offset, all_rows, active_users, all_events,
                   sorted_events, i, rows_by_month, sink, sink0, bqCalls, stdout>>

RouteEvent ==
    /\ pc = "events_route"
    /\ Route(rec)
    /\ i' = i + 1
    /\ pc' = "events_norm"
    /\ UNCHANGED <<run, args, start_date, end_date, token, gaData, report,
                   gaCalls, offset, all_rows, active_users, all_events,
                   sorted_events, rec, csv, sink, sink0>>

\* sorted_events exhausted: the csv file is closed
CloseCsv ==
    /\ pc = "events_norm"
    /\ i > Len(sorted_events)
    /\ stdout' = Append(stdout, <<"Data saved to output.csv!">>)
    /\ i' = 1
    /\ pc' = "write"
    /\ UNCHANGED <<run, args, start_date, end_date, token, gaData, report,
                   gaCalls, offset, all_rows, active_users, all_events,
                   sorted_events, rec, csv, rows_by_month, sink, sink0, bqCalls>>

----------------------------------------------------------------------------
(* Partition writer *)

\* WriteTable creating the table whether or not the lookup found it
WriteTable_Recreate(year, month, rows_to_insert, errors) ==
    LET table_id == get_table_ref(year, month)
        found    == table_id \in DOMAIN sink
        before   == [schema |-> schema, rows |-> <<>>]
        after    == IF errors THEN before
                    ELSE [before EXCEPT !.rows = @ \o StoredRows(rows_to_insert)]
    IN  /\ sink' = [t \in DOMAIN sink \cup {table_id} |->
                      IF t = table_id THEN after ELSE sink[t]]
        /\ bqCalls' = bqCalls
                      \o <<BqCall("get_table", table_id, <<>>, found)>>
                      \o <<BqCall("create_table", table_id, <<>>, TRUE)>>
                      \o <<BqCall("insert_rows", table_id, rows_to_insert, ~errors)>>
        /\ stdout' = stdout
                     \o << <<"Table created.", table_id>> >>
                     \o (IF errors THEN << <<"Errors:", table_id>> >>
                         ELSE << <<"Data saved to BigQuery for", month, year>> >>)

\* one iteration of the loop over rows_by_month.items(); errors is whether
\* insert_rows returns a non-empty error list, and then no row is stored
WriteTable(year, month, rows_to_insert, errors) ==
    LET table_id == get_table_ref(year, month)
        found    == table_id \in DOMAIN sink
        before   == IF found THEN sink[table_id]
                    ELSE [schema |-> schema, rows |-> <<>>]
        after    == IF errors THEN before
                    ELSE [before EXCEPT !.rows = @ \o StoredRows(rows_to_insert)]
    IN  /\ sink' = [t \in DOMAIN sink \cup {table_id} |->
                      IF t = table_id THEN after ELSE sink[t]]
        /\ bqCalls' = bqCalls
                      \o <<BqCall("get_table", table_id, <<>>, found)>>
                      \o (IF found THEN <<>>
                          ELSE <<BqCall("create_table", table_id, <<>>, TRUE)>>)
                      \o <<BqCall("insert_rows", table_id, rows_to_insert, ~errors)>>
        /\ stdout' = stdout
                     \o (IF found THEN <<>> ELSE << <<"Table created.", table_id>> >>)
                     \o (IF errors THEN << <<"Errors:", table_id>> >>
                         ELSE << <<"Data saved to BigQuery for", month, year>> >>)

\* WritePartition ending the loop at the first insert that returns errors
WritePartition_AbortOnError ==
    /\ pc = "write"
    /\ i <= Len(rows_by_month)
    /\ \E errors \in BOOLEAN :
         /\ WriteTable(rows_by_month[i].key[1], rows_by_month[i].key[2],
                       rows_by_month[i].rows, errors)
         /\ pc' = IF errors THEN "done" ELSE pc
    /\ i' = i + 1
    /\ UNCHANGED <<run, args, start_date, end_date, token, gaData, report,
                   gaCalls, offset, all_rows, active_users, all_events,
                   sorted_events, rec, csv, rows_by_month, sink0>>

WritePartition ==
    /\ pc = "write"
    /\ i <= Len(rows_by_month)
    /\ \E errors \in BOOLEAN :
         WriteTable(rows_by_month[i].key[1], rows_by_month[i].key[2],
                    rows_by_month[i].rows, errors)
    /\ i' = i + 1
    /\ UNCHANGED <<pc, run, args, start_date, end_date, token, gaData, report,
                   gaCalls, offset, all_rows, active_users, all_events,
                   sorted_events, rec, csv, rows_by_month, sink0>>

\* Finish going once more through the partitions when an insert failed
Finish_RetryOnce ==
    /\ pc = "write"
    /\ i > Len(rows_by_month)
    /\ IF /\ \E k \in 1..Len(bqCalls) : bqCalls[k].op = "insert_rows" /\ ~bqCalls[k].ok
          /\ Len(SelectSeq(bqCalls, LAMBDA c : c.op = "insert_rows")) <= Len(rows_by_month)
       THEN i' = 1 /\ pc' = "write"
       ELSE i' = i /\ pc' = "done"
    /\ UNCHANGED <<run, args, start_date, end_date, token, gaData, report,
                   gaCalls, offset, all_rows, active_users, all_events,
                   sorted_events, rec, csv, rows_by_month, sink, sink0,
                   bqCalls, stdout>>

\* rows_by_month exhausted: the script ends
Finish ==
    /\ pc = "write"
    /\ i > Len(rows_by_month)
    /\ pc' = "done"
    /\ UNCHANGED <<run, args, start_date, end_date, token, gaData, report,
                   gaCalls, offset, all_rows, active_users, all_events,
                   sorted_events, i, rec, csv, rows_by_month, sink, sink0,
                   bqCalls, stdout>>

\* the operator invokes the script again: a new process on the same
\* warehouse, GA4 property and token.pickle
StartRun ==
    /\ pc \in {"done", "exit"}
    /\ run < MaxRuns
    /\ run' = run + 1
    /\ pc' = "idle"
    /\ args' = [yesterday |-> FALSE, initial_fetch |-> FALSE]
    /\ start_date' = "" /\ end_date' = ""
    /\ report' = [users |-> <<>>, events |-> <<>>]
    /\ gaCalls' = <<>>
    /\ offset' = 0 /\ all_rows' = <<>>
    /\ active_users' = <<>> /\ all_events' = <<>> /\ sorted_events' = <<>>
    /\ i' = 0 /\ rec' = None
    /\ csv' = <<>>
    /\ rows_by_month' = <<>>
    /\ bqCalls' = <<>>
    /\ stdout' = <<>>
    /\ sink0' = sink
    /\ UNCHANGED <<token, gaData, sink>>

Next ==
    \/ ParseArgs
    \/ Authenticate
    \/ FetchUsers
    \/ FetchEvents
    \/ OpenCsv
    \/ NormalizeUser
    \/ RouteUser
    \/ SortEvents
    \/ NormalizeEvent
    \/ RouteEvent
    \/ CloseCsv
    \/ WritePartition
    \/ Finish
    \/ StartRun

Spec == Init /\ [][Next]_vars

----------------------------------------------------------------------------
(* Pagination on reports of several pages: the script right after           *)
(* authentication, the rows of a report named by their position in it       *)

ReportSizes ==
    { k * limit + d : k \in 0..MaxFullPages, d \in {0, 1, 3421, limit - 1} }

InitPage ==
    /\ pc = "fetch_users"
    /\ run = 1
    /\ args = [yesterday |-> FALSE, initial_fetch |-> TRUE]
    /\ start_date = INITIAL_FETCH_FROM_DATE /\ end_date = "2024-02-03"
    /\ token = TRUE
    /\ \E n \in ReportSizes, m \in {0, 1, limit} :
         report = [users |-> [k \in 1..n |-> k], events |-> [k \in 1..m |-> k]]
    /\ gaData = report
    /\ gaCalls = <<>>
    /\ offset = 0 /\ all_rows = <<>>
    /\ active_users = <<>> /\ all_events = <<>> /\ sorted_events = <<>>
    /\ i = 0 /\ rec = None
    /\ csv = <<>>
    /\ rows_by_month = <<>>
    /\ sink = <<>> /\ sink0 = <<>>
    /\ bqCalls = <<>>
    /\ stdout = <<>>

NextPage ==
    \/ FetchUsers
    \/ FetchEvents

PageSpec == InitPage /\ [][NextPage]_vars /\ WF_vars(NextPage)

----------------------------------------------------------------------------
(* C2: pagination *)

CallsOf(req) == SelectSeq(gaCalls, LAMBDA c : c[1] = req)

\* the request whose pages are being fetched, and those that are complete
Fetching == IF pc = "fetch_users" THEN {"users"}
            ELSE IF pc = "fetch_events" THEN {"events"} ELSE {}
Fetched  == IF pc = "fetch_users" THEN {}
            ELSE IF pc = "fetch_events" THEN {"users"} ELSE {"users", "events"}
ResultOf(req) == IF req = "users" THEN active_users ELSE all_events

PaginationInv ==
    /\ \A req \in {"users", "events"} :
         \A k \in 1..Len(CallsOf(req)) :
            CallsOf(req)[k] = <<req, (k - 1) * limit, limit>>
    /\ \A req \in Fetching :
         /\ offset = Len(CallsOf(req)) * limit
         /\ offset <= Len(report[req])
         /\ all_rows = SubSeq(report[req], 1, offset)
    /\ \A req \in Fetched :
         /\ ResultOf(req) = report[req]
         /\ Len(CallsOf(req)) = (Len(report[req]) \div limit) + 1
         /\ Len(report[req]) = 23421 => Len(CallsOf(req)) = 3
         /\ Len(report[req]) = 2 * limit => Len(CallsOf(req)) = 3

\* C2: run_report_with_pagination terminates and returns exactly the rows the
\* source holds for the request, each once and in order, requesting the
\* offsets 0, L, 2L, ... with L = 10000 and stopping at the first response
\* shorter than L: N \div L + 1 calls, 3 for 23421 rows, and one further,
\* empty, response when N is a multiple of L.
C2_Pagination == [](PaginationInv) /\ <>(pc = "open_csv")

\* the three pages of 10000, 10000 and 3421 rows have been fetched
C2_Witness ==
    /\ pc = "fetch_events"
    /\ Len(active_users) = 23421
    /\ Len(CallsOf("users")) = 3
    /\ active_users = report.users

----------------------------------------------------------------------------
(* What the claims speak of *)

Processing == pc \in {"users_norm", "users_route", "events_norm", "events_route"}
Routing    == pc \in {"users_route", "events_route"}

\* the data rows of output.csv
AuditRows == IF csv = <<>> THEN <<>> ELSE Tail(csv)

\* how many records have had their routing decision
Decided == Len(AuditRows) - (IF Routing THEN 1 ELSE 0)

RECURSIVE Flatten(_)
Flatten(d) == IF d = <<>> THEN <<>> ELSE Head(d).rows \o Flatten(Tail(d))

\* the records in the accumulators, bucket after bucket
Routed == Flatten(rows_by_month)

\* how many records the existence check reported as existing
Hits == Len(SelectSeq(stdout, LAMBDA m : m[1] = "..record already exists in BigQuery"))

\* the bq_client calls made by the partition writer / by the existence checks
WriterCall(k) ==
    \/ bqCalls[k].op \in {"create_table", "insert_rows"}
    \/ /\ bqCalls[k].op = "get_table"
       /\ k < Len(bqCalls)
       /\ bqCalls[k + 1].op \in {"create_table", "insert_rows"}
CheckCalls == { k \in 1..Len(bqCalls) : ~WriterCall(k) }
Lookups    == { k \in CheckCalls : bqCalls[k].op = "get_table" }
Inserts    == SelectSeq(bqCalls, LAMBDA c : c.op = "insert_rows")

RangeOf(q) == { q[k] : k \in 1..Len(q) }

----------------------------------------------------------------------------
(* C8: conversion derivation *)

EventRecordOk(r) ==
    /\ r.Event_Type \in {"Conversion", "Event"}
    /\ r.Event_Type = "Conversion" <=> r.Is_Conversion = <<TRUE>>
    /\ r.Event_Type = "Event" <=> r.Is_Conversion = <<FALSE>>

TrafficRecordOk(r) ==
    /\ r.Event_Name = "ct_active_users"
    /\ r.Is_Conversion = <<>>
    /\ r.Event_Type = "Traffic"

\* C8: the flag "(not set)" gives is_conversion = false and event_type "Event",
\* the empty flag gives "Event", any other flag gives is_conversion = true and
\* "Conversion"; an event record is a "Conversion" iff is_conversion is true;
\* a traffic record is named "ct_active_users", has is_conversion unset and
\* event_type "Traffic".
C8_ConversionDerivation ==
    /\ pc = "events_route" =>
         LET flag == sorted_events[i].isConversionEvent
         IN  /\ flag = "(not set)" =>
                  rec.Is_Conversion = <<FALSE>> /\ rec.Event_Type = "Event"
             /\ flag = "" =>
                  rec.Is_Conversion = <<FALSE>> /\ rec.Event_Type = "Event"
             /\ flag \notin {"(not set)", ""} =>
                  rec.Is_Conversion = <<TRUE>> /\ rec.Event_Type = "Conversion"
             /\ EventRecordOk(rec)
    /\ pc = "users_route" => TrafficRecordOk(rec)
    /\ \A r \in RangeOf(Routed) :
         IF r.Event_Type = "Traffic" THEN TrafficRecordOk(r) ELSE EventRecordOk(r)

\* an event row flagged "(not set)" has been normalized
C8_Witness ==
    /\ pc = "events_route"
    /\ sorted_events[i].isConversionEvent = "(not set)"
    /\ rec.Event_Type = "Event"
    /\ \E r \in RangeOf(Routed) : r.Event_Type = "Traffic"

----------------------------------------------------------------------------
(* C4: the audit trail *)

\* C4: every normalized record is one row of output.csv, written before its
\* existence check and whatever the check says and whatever the mode: the
\* data rows are the traffic records followed by the event records, as many
\* as were fetched once normalization is over, no check is issued for a
\* record before its row is written, and every routed record is audited.
C4_AuditTrail ==
    /\ pc \in {"users_norm", "users_route"} =>
         Len(AuditRows) = (IF pc = "users_route" THEN i ELSE i - 1)
    /\ pc \in {"events_norm", "events_route"} =>
         Len(AuditRows) = Len(active_users)
                          + (IF pc = "events_route" THEN i ELSE i - 1)
    /\ pc \in {"write", "done"} =>
         Len(AuditRows) = Len(active_users) + Len(all_events)
    /\ Routing => AuditRows[Len(AuditRows)] = CsvRow(rec)
    /\ Processing =>
         Cardinality(Lookups) = (IF args.yesterday THEN Decided ELSE 0)
    /\ \A r \in RangeOf(Routed) : CsvRow(r) \in RangeOf(AuditRows)
    /\ Len(Routed) + Hits = Decided \/ ~(Processing \/ pc \in {"write", "done"})

\* an event record found to exist already: audited, and not routed
C4_Witness ==
    /\ pc = "write"
    /\ args.yesterday
    /\ Hits > 0
    /\ Len(AuditRows) = 2
    /\ Len(Routed) < Len(AuditRows)
    /\ \E k \in 1..Len(AuditRows) : AuditRows[k][6] = "Conversion"

----------------------------------------------------------------------------
(* C5: dedup is gated by the mode *)

\* C5: without --yesterday no existence check is made, no table lookup and no
\* count query before the writer starts and no count query at all, and every
\* normalized record is in its accumulator; with --yesterday every record is
\* checked once.
C5_ModeGatedDedup ==
    /\ (pc \notin {"idle", "exit"} /\ ~args.yesterday) =>
         /\ CheckCalls = {}
         /\ \A k \in 1..Len(bqCalls) : bqCalls[k].op # "query"
         /\ Hits = 0
         /\ Processing \/ pc \in {"write", "done"} =>
              /\ Len(Routed) = Decided
              /\ \A k \in 1..Decided : \E r \in RangeOf(Routed) : CsvRow(r) = AuditRows[k]
    /\ (Processing /\ args.yesterday) => Cardinality(Lookups) = Decided

\* a backfill run has bucketed a record that its table already holds
C5_Witness ==
    /\ pc = "write"
    /\ ~args.yesterday
    /\ bqCalls = <<>>
    /\ \E r \in RangeOf(Routed) :
         LET t == get_table_ref(Year(r.Event_Date), Month(r.Event_Date))
         IN  /\ t \in DOMAIN sink
             /\ \E k \in 1..Len(sink[t].rows) :
                   /\ sink[t].rows[k].Event_Name = r.Event_Name
                   /\ sink[t].rows[k].Channel = r.Channel
                   /\ sink[t].rows[k].Event_Type = r.Event_Type
                   /\ sink[t].rows[k].Event_Date = 20240115
                   /\ r.Event_Date = "20240115"
                   /\ sink[t].rows[k].Event_Count = 42
                   /\ r.Event_Count = "42"

----------------------------------------------------------------------------
(* C1: idempotence of the incremental path *)

\* the table of the month of a YYYYMMDD date
PartitionTable(event_date) ==
    TABLE_PREFIX \o SubSeq(event_date, 1, 4) \o SubSeq(event_date, 5, 6) \o "01"

\* the stored rows s of a table with the dedup key (name, date, count, channel)
KeyRows(dataset, table, name, date, count, channel) ==
    IF table \notin DOMAIN dataset THEN {}
    ELSE { k \in 1..Len(dataset[table].rows) :
             /\ dataset[table].rows[k].Event_Name = name
             /\ dataset[table].rows[k].Event_Date = date
             /\ dataset[table].rows[k].Event_Count = count
             /\ dataset[table].rows[k].Channel = channel }

\* the record of an audit row was in its table when the run started
ExistedAtStart(row) ==
    KeyRows(sink0, PartitionTable(row[2]), row[1], ToInt(row[2]), ToInt(row[3]), row[5]) # {}

\* C1: in a --yesterday run a record whose (event_name, event_date,
\* event_count, channel) is in its partition table is found by the existence
\* check and enters no accumulator, so the run adds no row with that key to
\* the table.
C1_Idempotence ==
    args.yesterday =>
      /\ \A r \in RangeOf(Routed) : ~ExistedAtStart(CsvRow(r))
      /\ \A k \in 1..Len(Inserts) : \A r \in RangeOf(Inserts[k].rows) :
            ~ExistedAtStart(CsvRow(r))
      /\ Processing \/ pc \in {"write", "done"} =>
            Hits = Cardinality({ k \in 1..Decided : ExistedAtStart(AuditRows[k]) })
      /\ \A t \in DOMAIN sink0 : \A k \in 1..Len(sink0[t].rows) :
            LET s == sink0[t].rows[k]
            IN  KeyRows(sink, t, s.Event_Name, s.Event_Date, s.Event_Count, s.Channel)
                = KeyRows(sink0, t, s.Event_Name, s.Event_Date, s.Event_Count, s.Channel)

\* the second incremental run over two records the first one loaded
C1_Witness ==
    /\ run = 2
    /\ pc = "done"
    /\ args.yesterday
    /\ Len(AuditRows) = 2
    /\ Hits = 2
    /\ Routed = <<>>
    /\ Inserts = <<>>
    /\ sink = sink0
    /\ \E t \in DOMAIN sink : Len(sink[t].rows) = 2

----------------------------------------------------------------------------
(* C3: partition routing *)

Dates == { r.date : r \in UserRows \cup EventRows }

\* C3: a routed record is in one accumulator, the one keyed by
\* (event_date[0:4], event_date[4:6]), and is handed only to the table
\* TABLE_PREFIX + year + month + "01" (20240115 to the table of 2024, 01);
\* the writer makes one insert call per key, with all the records of the key.
C3_PartitionRouting ==
    /\ \A k \in 1..Len(rows_by_month) :
         /\ rows_by_month[k].rows # <<>>
         /\ \A r \in RangeOf(rows_by_month[k].rows) :
              rows_by_month[k].key = <<SubSeq(r.Event_Date, 1, 4), SubSeq(r.Event_Date, 5, 6)>>
         /\ \A j \in 1..Len(rows_by_month) :
              j # k => rows_by_month[j].key # rows_by_month[k].key
    /\ Processing \/ pc \in {"write", "done"} => Len(Routed) + Hits = Decided
    /\ \A k \in 1..Len(Inserts) :
         /\ Inserts[k].rows = rows_by_month[k].rows
         /\ Inserts[k].table
              = TABLE_PREFIX \o rows_by_month[k].key[1] \o rows_by_month[k].key[2] \o "01"
         /\ \A r \in RangeOf(Inserts[k].rows) :
              /\ Inserts[k].table = PartitionTable(r.Event_Date)
              /\ r.Event_Date = "20240115" => Inserts[k].table = "_backfill_GA4_20240101"
    /\ Len(Inserts) = (IF pc = "write" THEN i - 1
                       ELSE IF pc = "done" THEN Len(rows_by_month) ELSE 0)
    /\ \A t \in DOMAIN sink : \A k \in 1..Len(sink[t].rows) :
         \E d \in Dates : /\ ToInt(d) = sink[t].rows[k].Event_Date
                          /\ t = PartitionTable(d)

\* two records of January 2024 went to their table in one insert call
C3_Witness ==
    /\ pc = "done"
    /\ Len(Inserts) = 1
    /\ Len(Inserts[1].rows) = 2
    /\ Inserts[1].ok
    /\ Inserts[1].table = "_backfill_GA4_20240101"
    /\ Len(sink["_backfill_GA4_20240101"].rows) = 2

----------------------------------------------------------------------------
(* C10: the existence checks see the dataset as the run found it *)

RECURSIVE SumRows(_)
SumRows(calls) == IF calls = <<>> THEN 0 ELSE Len(Head(calls).rows) + SumRows(Tail(calls))

RECURSIVE RowsOf(_, _)
\* how many rows the tables T of a dataset hold
RowsOf(dataset, T) ==
    IF T = {} THEN 0
    ELSE LET t == CHOOSE u \in T : TRUE
         IN  Len(dataset[t].rows) + RowsOf(dataset, T \ {t})

\* rows the run has handed to insert_rows / has added to the dataset
Submitted == SumRows(Inserts)
Stored    == RowsOf(sink, DOMAIN sink) - RowsOf(sink0, DOMAIN sink0)

\* the records of the decided audit rows with the dedup key of audit row k
SameKeyAudited(k) ==
    { j \in 1..Decided : /\ AuditRows[j][1] = AuditRows[k][1]
                         /\ AuditRows[j][2] = AuditRows[k][2]
                         /\ AuditRows[j][3] = AuditRows[k][3]
                         /\ AuditRows[j][5] = AuditRows[k][5] }
SameKeyRouted(k) ==
    { j \in 1..Len(Routed) : /\ Routed[j].Event_Name = AuditRows[k][1]
                             /\ Routed[j].Event_Date = AuditRows[k][2]
                             /\ Routed[j].Event_Count = AuditRows[k][3]
                             /\ Routed[j].Channel = AuditRows[k][5] }

\* C10 as stated: in a --yesterday run there is no write before every record
\* is checked, and at the end of the run the records written number the
\* audited ones less those found existing.
C10_AsStated ==
    args.yesterday =>
      /\ Processing => sink = sink0
      /\ pc = "done" => Stored = Len(AuditRows) - Hits

\* C10, amended: no write happens before every record is checked and
\* bucketed, so a check finds a record iff its key was in the table when the
\* run started; records with one key that was not are all routed and handed
\* to the same insert call; the records handed to insert_rows number the
\* audited ones less those found existing, and the rows added to the dataset
\* are those of the insert calls that returned no errors.
C10_DedupAgainstStart ==
    /\ pc \notin {"write", "done"} => sink = sink0
    /\ Processing \/ pc \in {"write", "done"} =>
         /\ args.yesterday =>
              Hits = Cardinality({ k \in 1..Decided : ExistedAtStart(AuditRows[k]) })
         /\ \A k \in 1..Decided :
              ~(args.yesterday /\ ExistedAtStart(AuditRows[k])) =>
                 Cardinality(SameKeyRouted(k)) = Cardinality(SameKeyAudited(k))
         /\ Len(Routed) = Decided - Hits
    /\ pc = "done" =>
         /\ Submitted = Len(AuditRows) - Hits
         /\ Stored = SumRows(SelectSeq(Inserts, LAMBDA c : c.ok))

\* an incremental run has written two records with one dedup key
C10_Witness ==
    /\ pc = "done"
    /\ args.yesterday
    /\ Len(AuditRows) = 2
    /\ SameKeyAudited(1) = {1, 2}
    /\ Len(all_events) = 2
    /\ all_events[1] # all_events[2]
    /\ Hits = 0
    /\ Len(Inserts) = 1
    /\ Stored = 2

----------------------------------------------------------------------------
(* C6: partition writes are independent *)

\* the rows a table held when the run started
RowsAtStart(t) == IF t \in DOMAIN sink0 THEN sink0[t].rows ELSE <<>>

Printed(text) == Len(SelectSeq(stdout, LAMBDA m : m[1] = text))

\* C6: an insert that returns errors is reported and the loop goes on: every
\* key gets its lookup (and creation) and its insert call whatever the
\* earlier inserts returned, and each table holds what it held plus the rows
\* of its own insert call if that returned no errors.
C6_IndependentWrites ==
    /\ pc = "write" => Len(Inserts) = i - 1
    /\ pc = "done" => Len(Inserts) = Len(rows_by_month)
    /\ Printed("Errors:") = Len(SelectSeq(Inserts, LAMBDA c : ~c.ok))
    /\ Printed("Data saved to BigQuery for") = Len(SelectSeq(Inserts, LAMBDA c : c.ok))
    /\ \A k \in 1..Len(bqCalls) :
         bqCalls[k].op = "insert_rows" =>
            /\ k > 1
            /\ bqCalls[k - 1].table = bqCalls[k].table
            /\ \/ bqCalls[k - 1].op = "get_table" /\ bqCalls[k - 1].ok
               \/ /\ bqCalls[k - 1].op = "create_table"
                  /\ k > 2
                  /\ bqCalls[k - 2] = BqCall("get_table", bqCalls[k].table, <<>>, FALSE)
    /\ \A k \in 1..Len(Inserts) :
         /\ Inserts[k].table =
              TABLE_PREFIX \o rows_by_month[k].key[1] \o rows_by_month[k].key[2] \o "01"
         /\ Inserts[k].table \in DOMAIN sink
         /\ sink[Inserts[k].table].rows =
              RowsAtStart(Inserts[k].table)
              \o (IF Inserts[k].ok THEN StoredRows(Inserts[k].rows) ELSE <<>>)

\* the first partition's insert failed and the second partition was written
C6_Witness ==
    /\ pc = "done"
    /\ Len(Inserts) = 2
    /\ ~Inserts[1].ok
    /\ Inserts[2].ok
    /\ sink[Inserts[1].table].rows = <<>>
    /\ Len(sink[Inserts[2].table].rows) = 1
    /\ Printed("Errors:") = 1

----------------------------------------------------------------------------
(* C7: a missing table is not an error *)

C7_Calls ==
    /\ \A k \in 1..Len(bqCalls) :
         /\ bqCalls[k].op = "query" =>
              k > 1 /\ bqCalls[k - 1] = BqCall("get_table", bqCalls[k].table, <<>>, TRUE)
         /\ bqCalls[k].op = "create_table" =>
              /\ k > 1 /\ k < Len(bqCalls)
              /\ bqCalls[k - 1] = BqCall("get_table", bqCalls[k].table, <<>>, FALSE)
              /\ bqCalls[k + 1].op = "insert_rows"
              /\ bqCalls[k + 1].table = bqCalls[k].table
              /\ bqCalls[k + 1].rows # <<>>
              /\ bqCalls[k].table \notin DOMAIN sink0
              /\ \A j \in 1..Len(bqCalls) :
                   (bqCalls[j].op = "create_table" /\ bqCalls[j].table = bqCalls[k].table)
                      => j = k
         /\ (bqCalls[k].op = "get_table" /\ ~bqCalls[k].ok /\ WriterCall(k)) =>
              bqCalls[k + 1].op = "create_table"
         /\ (bqCalls[k].op = "get_table" /\ ~WriterCall(k)) =>
              bqCalls[k].ok = (bqCalls[k].table \in DOMAIN sink0)
    /\ args.yesterday =>
         \A k \in 1..Decided :
            PartitionTable(AuditRows[k][2]) \notin DOMAIN sink0 =>
               Cardinality(SameKeyRouted(k)) = Cardinality(SameKeyAudited(k))
    /\ DOMAIN sink =
         DOMAIN sink0 \cup { bqCalls[k].table : k \in { j \in 1..Len(bqCalls) :
                                                      bqCalls[j].op = "create_table" } }
    /\ \A t \in DOMAIN sink :
         sink[t].schema = << <<"Event_Name", "STRING">>, <<"Event_Date", "INTEGER">>,
                             <<"Event_Count", "INTEGER">>, <<"Is_Conversion", "BOOLEAN">>,
                             <<"Channel", "STRING">>, <<"Event_Type", "STRING">> >>

C7_Kept ==
    \A t \in DOMAIN sink :
       /\ t \in DOMAIN sink'
       /\ sink'[t].schema = sink[t].schema
       /\ Len(sink'[t].rows) >= Len(sink[t].rows)
       /\ SubSeq(sink'[t].rows, 1, Len(sink[t].rows)) = sink[t].rows

\* C7: an existence check that finds no table returns false without a count
\* query and the record is routed; the writer creates a table, with the six
\* field schema, only after its lookup found none and only for a key with
\* records, right before their insert; no step of a run removes a table,
\* changes its schema or removes or changes a row of it.
C7_MissingTable == [](C7_Calls) /\ [][C7_Kept]_vars

\* a check found no table, the record was routed and its table created
C7_Witness ==
    /\ pc = "done"
    /\ args.yesterday
    /\ Len(bqCalls) = 4
    /\ bqCalls[1] = BqCall("get_table", "_backfill_GA4_20240201", <<>>, FALSE)
    /\ bqCalls[3].op = "create_table"
    /\ bqCalls[4].op = "insert_rows" /\ bqCalls[4].ok
    /\ Len(sink["_backfill_GA4_20240201"].rows) = 1

----------------------------------------------------------------------------
(* C9: order of the phases of a run *)

\* Idle 0, Authenticating 1, Fetching 2, Normalizing 3, Routing 4,
\* Writing 5, Done 6.  At the head of a loop the run is Normalizing while a
\* record is left to normalize.
PhaseNo ==
    CASE pc = "idle" -> 0
      [] pc = "auth" -> 1
      [] pc \in {"fetch_users", "fetch_events", "open_csv"} -> 2
      [] pc = "users_norm" ->
           IF i <= Len(active_users) \/ all_events # <<>> THEN 3 ELSE 4
      [] pc = "events_norm" -> IF i <= Len(sorted_events) THEN 3 ELSE 4
      [] pc \in {"users_route", "events_route"} -> 4
      [] pc = "write" -> 5
      [] pc \in {"done", "exit"} -> 6

\* the same with Normalizing and Routing as the one phase 3
StageNo ==
    CASE PhaseNo <= 2 -> PhaseNo
      [] PhaseNo \in {3, 4} -> 3
      [] PhaseNo >= 5 -> PhaseNo - 1

\* C9 as stated: within a run the phase never goes back.
C9_AsStated == [][run' = run => PhaseNo' >= PhaseNo]_vars

Distinct(q) == \A j, k \in 1..Len(q) : j # k => q[j] # q[k]

C9_Order ==
    /\ StageNo <= 2 => csv = <<>> /\ rows_by_month = <<>> /\ bqCalls = <<>>
    /\ (StageNo >= 3 /\ pc # "exit") =>
         /\ active_users = report.users
         /\ all_events = report.events
    /\ Routing => AuditRows[Len(AuditRows)] = CsvRow(rec)
    /\ Len(Routed) <= Len(AuditRows)
    /\ StageNo <= 3 =>
         /\ sink = sink0
         /\ \A k \in 1..Len(bqCalls) : bqCalls[k].op \in {"get_table", "query"}
    /\ StageNo >= 4 /\ pc # "exit" =>
         Len(AuditRows) = Len(active_users) + Len(all_events)
    /\ Distinct(gaCalls)
    /\ Distinct([k \in 1..Len(Inserts) |-> Inserts[k].table])
    /\ Cardinality(Lookups) <= Decided \/ ~Processing

C9_Forward ==
    run' = run =>
      /\ StageNo' >= StageNo
      /\ StageNo >= 3 =>
           gaCalls' = gaCalls /\ active_users' = active_users /\ all_events' = all_events
      /\ StageNo >= 4 => csv' = csv /\ rows_by_month' = rows_by_month

\* C9, amended: a run goes Idle, Authenticating, Fetching, then Normalizing
\* and Routing record by record, then Writing, Done, never back and with no
\* call repeated; both fetches are complete before any record is normalized,
\* each record is normalized before it is routed, and no table is created or
\* appended to before every record is routed.  A run ended by the argument
\* check goes from Idle to its end.
C9_PhaseOrder == [](C9_Order) /\ [][C9_Forward]_vars

\* the second record is normalized after the first one was routed
C9_Witness ==
    /\ pc = "users_route"
    /\ i = 2
    /\ Len(Routed) = 1
    /\ Len(AuditRows) = 2

=============================================================================
